---- MODULE Spec2Model ----
(***************************************************************************)
(* Model of the Relay expression simplifier (simplify_expr.cc): the three  *)
(* rewrite rules SimplifyReshape, FullElementwise and SimplifyConvPad, the *)
(* patterns they register, and the pattern matcher and rewrite driver      *)
(* (RewritePatterns) they run on.                                          *)
(*                                                                         *)
(* Expressions live in an arena: an expression is its index, so identity   *)
(* of node objects is equality of indices.  Operators (Op::Get(name)) are  *)
(* the first NumOps indices and never change; the nodes of the program     *)
(* graph follow them in the variable arena.                                *)
(***************************************************************************)
EXTENDS Integers, Sequences, FiniteSets

VARIABLES
  arena,      \* the nodes of the program graph; node i has identity NumOps + i
  root,       \* the expression Simplify was called on
  memo,       \* the driver's memo table: original node -> replacement (0: none yet)
  cur,        \* the node being visited ("pre"), 0 between visits
  cand,       \* the current "post" candidate of the visit
  ridx,       \* index in callbacks_ of the next rule to try at cur
  status,     \* "running" | "done" | "error" (an ICHECK failed and aborted the pass)
  result,     \* what Simplify returned (0 before it returns)
  pass,       \* how many times the caller has run Simplify
  input,      \* the root of the first pass (history)
  prev,       \* the result of the previous pass (history, 0 on the first)
  post_of,    \* history: original node -> the node rebuilt from its rewritten children
  visits,     \* history: original node -> number of visits in this pass
  tries,      \* history: the rule attempts of the current visit, in order
  last,       \* history: the last callback invocation and what it returned
  sugar       \* pattern construction: two patterns and what an operator built of them

vars == << arena, root, memo, cur, cand, ridx, status, result, pass, input, prev,
           post_of, visits, tries, last, sugar >>

(***************************************************************************)
(* Bounds of the model.                                                    *)
(***************************************************************************)
MaxPadBase == 1
MaxChain == 3
MaxPasses == 2

(***************************************************************************)
(* Operator catalogue.  TOpPattern is the operator attribute the           *)
(* FullElementwise pattern tests.                                          *)
(***************************************************************************)
kElemWise == 0
kBroadcast == 1
kInjective == 2
kOutEWiseFusable == 4

OpNames == << "reshape", "contrib_reverse_reshape", "nn.pad",
              "nn.conv1d", "nn.conv2d", "nn.conv3d",
              "full", "full_like", "ones", "ones_like", "zeros", "zeros_like",
              "add", "subtract", "multiply", "divide", "less", "nn.dense", "exp",
              "negative" >>

NumOps == Len(OpNames)

OpId(name) == CHOOSE i \in 1..NumOps : OpNames[i] = name

TOpPattern(name) ==
  CASE name \in {"add", "multiply", "less"} -> kBroadcast
    [] name \in {"subtract", "divide"} -> kBroadcast
    [] name \in {"reshape", "contrib_reverse_reshape", "nn.pad"} -> kInjective
    [] name \in {"nn.conv1d", "nn.conv2d", "nn.conv3d", "nn.dense"} -> kOutEWiseFusable
    [] OTHER -> kElemWise

(***************************************************************************)
(* Types and nodes.  A dimension of -1 is a dynamic dimension (Any()), every *)
(* other dimension an IntImm.                                              *)
(***************************************************************************)
AnyDim == -1

TensorType(shape, dtype) == [shape |-> shape, dtype |-> dtype]

NoType == TensorType(<< >>, "")

NoAttrs ==
  [ newshape |-> << >>,
    pad_width |-> << >>, pad_mode |-> "", pad_value |-> 0,
    strides |-> << >>, padding |-> << >>, dilation |-> << >>, groups |-> 0,
    channels |-> 0, kernel_size |-> << >>, data_layout |-> << >>,
    kernel_layout |-> "", out_layout |-> "", out_dtype |-> "" ]

OpNode(name) ==
  [ kind |-> "op", name |-> name, op |-> 0, args |-> << >>, attrs |-> NoAttrs,
    type_args |-> << >>, span |-> "", value |-> 0, ty |-> NoType ]

Var(name, ty) ==
  [ kind |-> "var", name |-> name, op |-> 0, args |-> << >>, attrs |-> NoAttrs,
    type_args |-> << >>, span |-> "", value |-> 0, ty |-> ty ]

Constant(value, ty) ==
  [ kind |-> "const", name |-> "", op |-> 0, args |-> << >>, attrs |-> NoAttrs,
    type_args |-> << >>, span |-> "", value |-> value, ty |-> ty ]

Call(op, args, attrs, type_args, span, ty) ==
  [ kind |-> "call", name |-> "", op |-> op, args |-> args, attrs |-> attrs,
    type_args |-> type_args, span |-> span, value |-> 0, ty |-> ty ]

Tuple(fields, ty) ==
  [ kind |-> "tuple", name |-> "", op |-> 0, args |-> fields, attrs |-> NoAttrs,
    type_args |-> << >>, span |-> "", value |-> 0, ty |-> ty ]

\* The node with identity e, in the graph g (a sequence of nodes, as arena is).
ExprIn(g, e) == IF e <= NumOps THEN OpNode(OpNames[e]) ELSE g[e - NumOps]

Expr(e) == ExprIn(arena, e)

\* Identity of the i-th node of a graph.
G(i) == NumOps + i

\* Identity of the last node of a graph.
Top(g) == NumOps + Len(g)

(***************************************************************************)
(* Pattern language.  A pattern object is a record; pid is its identity,   *)
(* the key of the binding map.                                             *)
(***************************************************************************)
IsWildcard(pid) == [pid |-> pid, kind |-> "wildcard"]

IsConstant(pid) == [pid |-> pid, kind |-> "constant"]

IsOp(pid, name) == [pid |-> pid, kind |-> "expr", expr |-> OpId(name)]

CallPattern(pid, op, args) == [pid |-> pid, kind |-> "call", op |-> op, args |-> args]

AltPattern(pid, left, right) == [pid |-> pid, kind |-> "alt", left |-> left, right |-> right]

HasAttr(pid, inner, key, val) ==
  [pid |-> pid, kind |-> "attr", inner |-> inner, key |-> key, val |-> val]

RECURSIVE PatternIds(_)
RECURSIVE PatternIdsOfSeq(_)
PatternIds(p) ==
  {p.pid} \cup
  CASE p.kind = "call" -> PatternIds(p.op) \cup PatternIdsOfSeq(p.args)
    [] p.kind = "alt" -> PatternIds(p.left) \cup PatternIds(p.right)
    [] p.kind = "attr" -> PatternIds(p.inner)
    [] OTHER -> {}

PatternIdsOfSeq(ps) ==
  IF ps = << >> THEN {} ELSE PatternIds(Head(ps)) \cup PatternIdsOfSeq(Tail(ps))

(***************************************************************************)
(* SimplifyReshape's pattern: reshape1({reshape2({x_})}).                  *)
(***************************************************************************)
R_x == IsWildcard("R.x_")

R_reshape1 ==
  AltPattern("R.reshape1", IsOp("R.reshape1.l", "reshape"),
                           IsOp("R.reshape1.r", "contrib_reverse_reshape"))

R_reshape2 ==
  AltPattern("R.reshape2", IsOp("R.reshape2.l", "reshape"),
                           IsOp("R.reshape2.r", "contrib_reverse_reshape"))

SimplifyReshape_pattern ==
  CallPattern("R.pattern_", R_reshape1,
              << CallPattern("R.inner", R_reshape2, << R_x >>) >>)

(***************************************************************************)
(* SimplifyConvPad's pattern: (conv1d_ || conv2d_ || conv3d_)({pad_, w_}). *)
(***************************************************************************)
C_x == IsWildcard("C.x_")

C_w == IsWildcard("C.w_")

C_pad == CallPattern("C.pad_", IsOp("C.pad_op", "nn.pad"), << C_x >>)

C_conv1d == IsOp("C.conv1d_", "nn.conv1d")

C_conv2d == IsOp("C.conv2d_", "nn.conv2d")

C_conv3d == IsOp("C.conv3d_", "nn.conv3d")

SimplifyConvPad_pattern ==
  CallPattern("C.conv_",
              AltPattern("C.conv123", AltPattern("C.conv12", C_conv1d, C_conv2d), C_conv3d),
              << C_pad, C_w >>)

(***************************************************************************)
(* FullElementwise's pattern: op({full, x_}) || op({x_, full}), op any     *)
(* operator whose TOpPattern is kBroadcast.                                *)
(***************************************************************************)
F_x == IsWildcard("F.x_")

F_data == IsWildcard("F.data_")

F_value == IsConstant("F.value_")

F_full ==
  AltPattern("F.full_",
    CallPattern("F.full_.l", IsOp("F.full_.l.op", "full"), << F_value >>),
    CallPattern("F.full_.r", IsOp("F.full_.r.op", "full_like"), << F_data, F_value >>))

F_ones ==
  AltPattern("F.ones_",
    CallPattern("F.ones_.l", IsOp("F.ones_.l.op", "ones"), << >>),
    CallPattern("F.ones_.r", IsOp("F.ones_.r.op", "ones_like"), << F_data >>))

F_zeros ==
  AltPattern("F.zeros_",
    CallPattern("F.zeros_.l", IsOp("F.zeros_.l.op", "zeros"), << >>),
    CallPattern("F.zeros_.r", IsOp("F.zeros_.r.op", "zeros_like"), << F_data >>))

F_op == HasAttr("F.op", IsWildcard("F.op.any"), "TOpPattern", kBroadcast)

F_anyfull == AltPattern("F.full", AltPattern("F.full.fo", F_full, F_ones), F_zeros)

F_left == CallPattern("F.left", F_op, << F_anyfull, F_x >>)

F_right == CallPattern("F.right", F_op, << F_x, F_anyfull >>)

\* As FullElementwise_pattern, with the alternation's branches exchanged.
FullElementwise_pattern_right_first == AltPattern("F.pattern_", F_right, F_left)

FullElementwise_pattern == AltPattern("F.pattern_", F_left, F_right)

(***************************************************************************)
(* callbacks_: the rules in the order ExprSimplifier's constructor         *)
(* registers them.                                                         *)
(***************************************************************************)
\* As callbacks, with the first two registrations exchanged.
callbacks_reordered == << "FullElementwise", "SimplifyReshape", "SimplifyConvPad" >>

callbacks == << "SimplifyReshape", "FullElementwise", "SimplifyConvPad" >>

PatternOf(rule) ==
  CASE rule = "SimplifyReshape" -> SimplifyReshape_pattern
    [] rule = "FullElementwise" -> FullElementwise_pattern
    [] rule = "SimplifyConvPad" -> SimplifyConvPad_pattern

PatIds ==
  PatternIds(SimplifyReshape_pattern) \cup PatternIds(FullElementwise_pattern)
    \cup PatternIds(SimplifyConvPad_pattern)

(***************************************************************************)
(* The matcher.  A binding map sends every pattern identity to the         *)
(* sequence of expressions matched at it (<< >>: not in the map).  A       *)
(* failed match leaves the map as it was given.                            *)
(***************************************************************************)
EmptyMap == [p \in PatIds |-> << >>]

Bind(b, p, e) == [b EXCEPT ![p.pid] = Append(@, e)]

Count(b, p) == b[p.pid] # << >>

Matched(b, p, e) == [ok |-> TRUE, b |-> Bind(b, p, e)]

NoMatch(b) == [ok |-> FALSE, b |-> b]

RECURSIVE MatchIn(_, _, _, _)
RECURSIVE MatchArgs(_, _, _, _)
MatchAlt(g, p, e, b) ==
  LET l == MatchIn(g, p.left, e, b) IN
  IF l.ok THEN Matched(l.b, p, e)
  ELSE LET r == MatchIn(g, p.right, e, b) IN
       IF r.ok THEN Matched(r.b, p, e) ELSE NoMatch(b)

MatchCall(g, p, e, b) ==
  IF ExprIn(g, e).kind # "call" THEN NoMatch(b)
  ELSE LET o == MatchIn(g, p.op, ExprIn(g, e).op, b) IN
       IF ~o.ok \/ Len(ExprIn(g, e).args) # Len(p.args) THEN NoMatch(b)
       ELSE LET a == MatchArgs(g, p.args, ExprIn(g, e).args, o.b) IN
            IF a.ok THEN Matched(a.b, p, e) ELSE NoMatch(b)

MatchAttr(g, p, e, b) ==
  LET i == MatchIn(g, p.inner, e, b) IN
  IF i.ok /\ ExprIn(g, e).kind = "op" /\ p.key = "TOpPattern"
          /\ TOpPattern(ExprIn(g, e).name) = p.val
  THEN Matched(i.b, p, e) ELSE NoMatch(b)

MatchIn(g, p, e, b) ==
  CASE p.kind = "wildcard" -> Matched(b, p, e)
    [] p.kind = "constant" ->
         IF ExprIn(g, e).kind = "const" THEN Matched(b, p, e) ELSE NoMatch(b)
    [] p.kind = "expr" -> IF e = p.expr THEN Matched(b, p, e) ELSE NoMatch(b)
    [] p.kind = "call" -> MatchCall(g, p, e, b)
    [] p.kind = "attr" -> MatchAttr(g, p, e, b)
    [] p.kind = "alt" -> MatchAlt(g, p, e, b)

MatchArgs(g, ps, es, b) ==
  IF ps = << >> THEN [ok |-> TRUE, b |-> b]
  ELSE LET h == MatchIn(g, Head(ps), Head(es), b) IN
       IF h.ok THEN LET t == MatchArgs(g, Tail(ps), Tail(es), h.b) IN
                    IF t.ok THEN t ELSE NoMatch(b)
       ELSE NoMatch(b)

Match(p, e) == MatchIn(arena, p, e, EmptyMap)

(***************************************************************************)
(* What a callback returns: the post node itself (unchanged), a            *)
(* replacement built from new nodes (appended to the graph, the last of    *)
(* them the replacement), or a failed ICHECK, which throws out of the pass.*)
(***************************************************************************)
Unchanged(post) == [outcome |-> "unchanged", new |-> << >>, expr |-> post]

Replace(g, new) == [outcome |-> "replace", new |-> new, expr |-> Top(g) + Len(new)]

Abort(post) == [outcome |-> "abort", new |-> << >>, expr |-> post]

(***************************************************************************)
(* SimplifyReshape::callback                                               *)
(***************************************************************************)
MakeReshape(g, x, newshape) ==
  Call(OpId("reshape"), << x >>, [NoAttrs EXCEPT !.newshape = newshape], << >>, "",
       TensorType(newshape, ExprIn(g, x).ty.dtype))

\* As SimplifyReshape_callback, reshaping the outer call's argument instead of
\* the innermost operand.
SimplifyReshape_callback_of_argument(g, pre, post, node_map) ==
  LET x == ExprIn(g, post).args[1]
      shape == ExprIn(g, pre).ty.shape
      const_shape == \A i \in 1..Len(shape) : shape[i] # AnyDim
  IN  IF const_shape THEN Replace(g, << MakeReshape(g, x, shape) >>)
      ELSE Unchanged(post)

SimplifyReshape_callback(g, pre, post, node_map) ==
  LET x == node_map[R_x.pid][1]
      shape == ExprIn(g, pre).ty.shape
      const_shape == \A i \in 1..Len(shape) : shape[i] # AnyDim
  IN  IF const_shape THEN Replace(g, << MakeReshape(g, x, shape) >>)
      ELSE Unchanged(post)

(***************************************************************************)
(* SimplifyConvPad: MakeConvAttrs, GetAttrs, callback                      *)
(***************************************************************************)
image_dims == {"H", "W", "D"}

AttrsOk(attrs) == [tag |-> "attrs", attrs |-> attrs]

AttrsUndefined == [tag |-> "undefined", attrs |-> NoAttrs]

AttrsCheckFailed == [tag |-> "abort", attrs |-> NoAttrs]

\* As MakeConvAttrs, leaving groups at its default.
MakeConvAttrs_without_groups(old_attrs, padding) ==
  IF Len(padding) # Len(old_attrs.padding) THEN AttrsCheckFailed
  ELSE AttrsOk(
    [ NoAttrs EXCEPT
        !.strides = old_attrs.strides,
        !.padding = [i \in 1..Len(padding) |-> padding[i] + old_attrs.padding[i]],
        !.dilation = old_attrs.dilation,
        !.channels = old_attrs.channels,
        !.kernel_size = old_attrs.kernel_size,
        !.data_layout = old_attrs.data_layout,
        !.kernel_layout = old_attrs.kernel_layout,
        !.out_layout = old_attrs.out_layout,
        !.out_dtype = old_attrs.out_dtype ])

MakeConvAttrs(old_attrs, padding) ==
  IF Len(padding) # Len(old_attrs.padding) THEN AttrsCheckFailed
  ELSE AttrsOk(
    [ NoAttrs EXCEPT
        !.strides = old_attrs.strides,
        !.padding = [i \in 1..Len(padding) |-> padding[i] + old_attrs.padding[i]],
        !.dilation = old_attrs.dilation,
        !.groups = old_attrs.groups,
        !.channels = old_attrs.channels,
        !.kernel_size = old_attrs.kernel_size,
        !.data_layout = old_attrs.data_layout,
        !.kernel_layout = old_attrs.kernel_layout,
        !.out_layout = old_attrs.out_layout,
        !.out_dtype = old_attrs.out_dtype ])

\* The indices i with data_layout[i] an image dimension, in increasing order.
SpatialIndices(data_layout, n) ==
  SelectSeq([i \in 1..n |-> i], LAMBDA i : data_layout[i] \in image_dims)

\* padding: for each j (before, after), pad_width[i][j] of every spatial i.
SpatialPadding(pad_width, data_layout) ==
  LET sp == SpatialIndices(data_layout, Len(pad_width))
      ns == Len(sp)
      m  == Len(pad_width[1])
  IN  [k \in 1..(m * ns) |-> pad_width[sp[((k - 1) % ns) + 1]][((k - 1) \div ns) + 1]]

NonSpatialPadded(pad_width, data_layout) ==
  \E i \in 1..Len(pad_width) :
     /\ data_layout[i] \notin image_dims
     /\ \E j \in 1..Len(pad_width[i]) : pad_width[i][j] # 0

GetAttrs(param, attrs) ==
  IF Len(attrs.data_layout) # Len(param.pad_width) THEN AttrsCheckFailed
  ELSE IF NonSpatialPadded(param.pad_width, attrs.data_layout) THEN AttrsUndefined
  ELSE MakeConvAttrs(attrs, SpatialPadding(param.pad_width, attrs.data_layout))

SimplifyConvPad_callback(g, pre, post, node_map) ==
  LET call_node == ExprIn(g, post)
      pad == node_map[C_pad.pid][1]
      param == ExprIn(g, pad).attrs
  IN  IF param.pad_mode = "constant" /\ param.pad_value = 0
      THEN IF Count(node_map, C_conv1d) \/ Count(node_map, C_conv2d)
                \/ Count(node_map, C_conv3d)
           THEN LET a == GetAttrs(param, call_node.attrs)
                    x == node_map[C_x.pid][1]
                    w == node_map[C_w.pid][1]
                IN  CASE a.tag = "abort" -> Abort(post)
                      [] a.tag = "undefined" -> Unchanged(post)
                      [] OTHER ->
                           Replace(g, << Call(call_node.op, << x, w >>, a.attrs,
                                              call_node.type_args, call_node.span,
                                              call_node.ty) >>)
           ELSE Unchanged(post)
      ELSE Unchanged(post)

(***************************************************************************)
(* FullElementwise::callback                                               *)
(***************************************************************************)
IsConstScalar(g, e) == ExprIn(g, e).kind = "const" /\ ExprIn(g, e).ty.shape = << >>

MakeConstantScalar(dtype, value) == Constant(value, TensorType(<< >>, dtype))

StructuralEqual(a, b) == a = b

\* As OtherOperandType, taking the type of the full-like operand.
OtherOperandType_of_full(g, call, is_left) ==
  IF is_left THEN ExprIn(g, call.args[1]).ty ELSE ExprIn(g, call.args[2]).ty

\* x_type: the type of the operand that is not the full-like one.
OtherOperandType(g, call, is_left) ==
  IF is_left THEN ExprIn(g, call.args[2]).ty ELSE ExprIn(g, call.args[1]).ty

FullElementwise_callback(g, pre, post, node_map) ==
  LET call == ExprIn(g, pre)
      pre_type == call.ty
      dtype == pre_type.dtype
      x == node_map[F_x.pid][1]
      is_left == ExprIn(g, post).args[2] = x
      x_type == OtherOperandType(g, call, is_left)
      \* the rewritten call around value v, v an existing node (new = 0) or the
      \* node about to be appended first
      Rebuilt(v) ==
        Call(call.op, IF is_left THEN << v, x >> ELSE << x, v >>, call.attrs,
             call.type_args, call.span, pre_type)
      WithScalar(n) ==
        Replace(g, << MakeConstantScalar(dtype, n), Rebuilt(Top(g) + 1) >>)
  IN  IF StructuralEqual(x_type, pre_type)
      THEN IF Count(node_map, F_full)
           THEN LET value == node_map[F_value.pid][1] IN
                IF IsConstScalar(g, value) THEN Replace(g, << Rebuilt(value) >>)
                ELSE Abort(post)
           ELSE IF Count(node_map, F_ones) THEN WithScalar(1)
           ELSE IF Count(node_map, F_zeros) THEN WithScalar(0)
           ELSE Abort(post)
      ELSE Unchanged(post)

Callback(rule, g, pre, post, node_map) ==
  CASE rule = "SimplifyReshape" -> SimplifyReshape_callback(g, pre, post, node_map)
    [] rule = "FullElementwise" -> FullElementwise_callback(g, pre, post, node_map)
    [] rule = "SimplifyConvPad" -> SimplifyConvPad_callback(g, pre, post, node_map)

(***************************************************************************)
(* Input programs.  Every node carries the type InferType gave it (the     *)
(* pass requires InferType).  Three families, one per rule, each           *)
(* optionally wrapped so that a node has several parents.                  *)
(***************************************************************************)
F32(shape) == TensorType(shape, "float32")

TupleType == TensorType(<< >>, "tuple")

Range(f) == {f[i] : i \in DOMAIN f}

\* --- a pad feeding a convolution ---------------------------------------
Layouts(nd) ==
  CASE nd = 1 -> { << "N", "C", "W" >>, << "N", "W", "C" >> }
    [] nd = 2 -> { << "N", "C", "H", "W" >>, << "N", "H", "W", "C" >>,
                   << "N", "C", "H", "W", "4", "c" >> }
    [] nd = 3 -> { << "N", "C", "D", "H", "W" >>, << "N", "D", "H", "W", "C" >> }

\* Number of axes of a tensor in the layout: a packed layout such as NCHW4c
\* names its split factor, which is no axis.
Rank(layout) == Len(SelectSeq(layout, LAMBDA c : c \notin {"4"}))

ConvOp(nd) == CASE nd = 1 -> "nn.conv1d" [] nd = 2 -> "nn.conv2d" [] nd = 3 -> "nn.conv3d"

\* Accepted forms of a convolution's padding: one entry, one per spatial
\* dimension, or one per side of every spatial dimension.
PaddingForms(nd) ==
  { [k \in 1..(2 * nd) |-> k], << 1 >>, [k \in 1..nd |-> 1] }

PadPair(i, rank, variant, base) ==
  CASE variant = "both" -> << base + i, base + i + rank >>
    [] variant = "before" -> << base + i, 0 >>
    [] variant = "after" -> << 0, base + i >>
    [] variant = "uniform" -> << base + 2, base + 2 >>

PadWidth(rank, padded, variant, base) ==
  [i \in 1..rank |-> IF i \in padded THEN PadPair(i, rank, variant, base) ELSE << 0, 0 >>]

\* Which axes a pad pads: none, the spatial ones, a single one, or the spatial
\* ones and one other.
PaddedSets(layout) ==
  LET rank == Rank(layout)
      sp == {i \in 1..rank : layout[i] \in image_dims}
  IN  {{}, sp} \cup {{i} : i \in 1..rank} \cup {sp \cup {i} : i \in 1..rank}

PadModes == { << "constant", 0 >>, << "constant", 1 >>, << "reflect", 0 >> }

ConvGraph(nd, layout, pad_width, mode, padding) ==
  LET rank == Rank(layout)
      ty == F32([i \in 1..rank |-> 8])
  IN  << Var("x", ty),
         Var("w", ty),
         Call(OpId("nn.pad"), << G(1) >>,
              [NoAttrs EXCEPT !.pad_width = pad_width, !.pad_mode = mode[1],
                              !.pad_value = mode[2]],
              << >>, "pad.span", ty),
         Call(OpId(ConvOp(nd)), << G(3), G(2) >>,
              [NoAttrs EXCEPT !.strides = [i \in 1..nd |-> 2], !.padding = padding,
                              !.dilation = [i \in 1..nd |-> 3], !.groups = 2,
                              !.channels = 8, !.kernel_size = [i \in 1..nd |-> 3],
                              !.data_layout = layout, !.kernel_layout = "OI",
                              !.out_layout = "N", !.out_dtype = "float32"],
              << "T1", "T2" >>, "conv.span", ty) >>

ConvGraphs ==
  { ConvGraph(c.nd, c.layout, PadWidth(Rank(c.layout), c.padded, c.variant, c.base),
              c.mode, c.padding) :
    c \in UNION { UNION { [nd : {nd}, layout : {layout}, padded : PaddedSets(layout),
                          variant : {"both", "before", "after", "uniform"},
                          base : 0..(MaxPadBase - 1), mode : PadModes,
                          padding : PaddingForms(nd)] :
                          layout \in Layouts(nd) } : nd \in 1..3 } }

\* --- a broadcasting call over a full-like operand ------------------------
Big == << 2, 3 >>

Small == << 3 >>

Scalar == << >>

\* The nodes of one operand, the operand itself last; off nodes precede them.
Operand(kind, shape, off) ==
  CASE kind = "var" -> << Var("y", F32(shape)) >>
    [] kind = "zeros" -> << Call(OpId("zeros"), << >>, NoAttrs, << >>, "", F32(shape)) >>
    [] kind = "ones" -> << Call(OpId("ones"), << >>, NoAttrs, << >>, "", F32(shape)) >>
    [] kind = "zeros_like" ->
         << Var("d", F32(shape)),
            Call(OpId("zeros_like"), << G(off + 1) >>, NoAttrs, << >>, "", F32(shape)) >>
    [] kind = "ones_like" ->
         << Var("d", F32(shape)),
            Call(OpId("ones_like"), << G(off + 1) >>, NoAttrs, << >>, "", F32(shape)) >>
    [] kind = "full" ->
         << Constant(7, F32(Scalar)),
            Call(OpId("full"), << G(off + 1) >>, NoAttrs, << >>, "", F32(shape)) >>
    [] kind = "full_tensor" ->
         << Constant(7, F32(<< 1 >>)),
            Call(OpId("full"), << G(off + 1) >>, NoAttrs, << >>, "", F32(shape)) >>
    [] kind = "full_var" ->
         << Var("v", F32(Scalar)),
            Call(OpId("full"), << G(off + 1) >>, NoAttrs, << >>, "", F32(shape)) >>
    [] kind = "full_like" ->
         << Var("d", F32(shape)), Constant(7, F32(Scalar)),
            Call(OpId("full_like"), << G(off + 1), G(off + 2) >>, NoAttrs, << >>, "",
                 F32(shape)) >>

OperandKinds ==
  { "var", "zeros", "ones", "zeros_like", "ones_like", "full", "full_tensor",
    "full_var", "full_like" }

\* The type of op(l, r): the broadcast of the operands' shapes; a comparison
\* yields bool.
ResultType(op, lshape, rshape) ==
  TensorType(IF Big \in {lshape, rshape} THEN Big ELSE Small,
             IF op = "less" THEN "bool" ELSE "float32")

BroadcastGraph(op, lkind, lshape, rkind, rshape, same) ==
  LET l == Operand(lkind, lshape, 0)
      r == IF same THEN << >> ELSE Operand(rkind, rshape, Len(l))
  IN  l \o r \o
      << Call(OpId(op), << G(Len(l)), G(Len(l) + Len(r)) >>,
              [NoAttrs EXCEPT !.out_dtype = "attr"], << "T" >>, "call.span",
              ResultType(op, lshape, IF same THEN lshape ELSE rshape)) >>

BroadcastGraphs ==
  { BroadcastGraph("add", c.lkind, c.lshape, c.rkind, c.rshape, FALSE) :
    c \in [lkind : OperandKinds, lshape : {Big, Small},
           rkind : OperandKinds, rshape : {Big, Small}] }
  \cup { BroadcastGraph(c.op, c.lkind, Big, c.rkind, Big, FALSE) :
         c \in [op : {"less", "nn.dense"}, lkind : OperandKinds, rkind : OperandKinds] }
  \cup { BroadcastGraph("add", k, Big, k, Big, TRUE) : k \in OperandKinds }

\* --- a chain of reshapes -------------------------------------------------
ReshapeLevels == {"reshape", "contrib_reverse_reshape"} \X BOOLEAN

LevelShape(i, dynamic) == IF dynamic THEN << AnyDim, i >> ELSE << i, 24 >>

ReshapeChain(levels) ==
  << Var("x", F32(<< 24 >>)) >> \o
  [i \in 1..Len(levels) |->
     Call(OpId(levels[i][1]), << G(i) >>,
          [NoAttrs EXCEPT !.newshape = LevelShape(i, levels[i][2])], << >>, "",
          F32(LevelShape(i, levels[i][2])))]

ReshapeGraphs ==
  { ReshapeChain(levels) : levels \in UNION { [1..n -> ReshapeLevels] : n \in 1..MaxChain } }

\* --- sharing ---------------------------------------------------------------
\* g with its top node given further parents: two calls and a tuple of them
\* (diamond), or a tuple of the top node and its first argument (inner).
Wrap(g, how) ==
  LET top == Top(g)
      ty == ExprIn(g, top).ty
  IN  CASE how = "diamond" ->
             g \o << Call(OpId("exp"), << top >>, NoAttrs, << >>, "", ty),
                     Call(OpId("negative"), << top >>, NoAttrs, << >>, "", ty),
                     Tuple(<< top + 1, top + 2, top >>, TupleType) >>
        [] how = "inner" /\ ExprIn(g, top).args # << >> ->
             g \o << Tuple(<< top, ExprIn(g, top).args[1] >>, TupleType) >>
        [] OTHER -> g

\* The graphs that are also run wrapped.
SharedBase ==
  { g \in ConvGraphs : /\ g[3].attrs.pad_mode = "constant"
                       /\ g[3].attrs.pad_value = 0
                       /\ g[3].attrs.pad_width[1] = << 0, 0 >>
                       /\ g[3].attrs.pad_width[2] \in {<< 0, 0 >>, << 2, 2 >>}
                       /\ Len(g[4].attrs.padding) = 2 * (Len(g[3].attrs.pad_width) - 2) }
  \cup { g \in BroadcastGraphs : g[Len(g)].op = OpId("add") /\ g[1].ty.shape = Big }
  \cup ReshapeGraphs

InputGraphs ==
  ConvGraphs \cup BroadcastGraphs \cup ReshapeGraphs
    \cup { Wrap(g, how) : g \in SharedBase, how \in {"diamond", "inner"} }

(***************************************************************************)
(* The rewrite driver (RewritePatterns): one post-order traversal from     *)
(* root with a memo table keyed by the original node; at each node the     *)
(* node is rebuilt over its rewritten children and the rules are tried in  *)
(* registry order, each on the newest candidate.                           *)
(***************************************************************************)
RECURSIVE Walk(_, _, _)
RECURSIVE WalkArgs(_, _, _)
\* acc extended by the nodes under e not yet in it, children before parents.
Walk(g, e, acc) ==
  IF e \in Range(acc) THEN acc ELSE Append(WalkArgs(g, ExprIn(g, e).args, acc), e)

WalkArgs(g, es, acc) ==
  IF es = << >> THEN acc ELSE WalkArgs(g, Tail(es), Walk(g, Head(es), acc))

PostOrder(g, e) == Walk(g, e, << >>)

Visited == DOMAIN memo

\* The nodes of the traversal that have not been visited, in visiting order.
Pending == SelectSeq(PostOrder(arena, root), LAMBDA e : e \notin Visited)

\* As RewrittenArgs, keeping the original children.
RewrittenArgs_original(m, args) == args

\* The children a rebuilt node refers to: the memo table's replacements.
RewrittenArgs(m, args) == [i \in 1..Len(args) |-> m[args[i]]]

NoCall ==
  [rule |-> "", pre |-> 0, post |-> 0, map |-> EmptyMap, outcome |-> "", expr |-> 0]

NoSugar == [a |-> IsWildcard(""), b |-> IsWildcard(""), by |-> "", built |-> IsWildcard("")]

Init ==
  /\ arena \in InputGraphs
  /\ root = Top(arena)
  /\ input = root
  /\ memo = << >>
  /\ cur = 0
  /\ cand = 0
  /\ ridx = 0
  /\ status = "running"
  /\ result = 0
  /\ pass = 1
  /\ prev = 0
  /\ post_of = << >>
  /\ visits = << >>
  /\ tries = << >>
  /\ last = NoCall
  /\ sugar = NoSugar

\* Steps 1 and 2 of a visit: take the next node in post-order and rebuild it
\* over its rewritten children (the node itself when none of them changed).
Visit ==
  /\ status = "running"
  /\ cur = 0
  /\ Pending # << >>
  /\ LET n == Head(Pending)
         args == RewrittenArgs(memo, Expr(n).args)
         same == args = Expr(n).args
         post == IF same THEN n ELSE Top(arena) + 1
     IN  /\ arena' = IF same THEN arena ELSE Append(arena, [Expr(n) EXCEPT !.args = args])
         /\ cur' = n
         /\ cand' = post
         /\ post_of' = [x \in DOMAIN post_of \cup {n} |->
                          IF x = n THEN post ELSE post_of[x]]
         /\ visits' = [x \in DOMAIN visits \cup {n} |->
                          IF x = n THEN (IF n \in DOMAIN visits THEN visits[n] ELSE 0) + 1
                          ELSE visits[x]]
  /\ ridx' = 1
  /\ tries' = << >>
  /\ UNCHANGED << sugar, root, memo, status, result, pass, input, prev, last >>

Attempt(rule, outcome, after) ==
  [node |-> cur, rule |-> rule, before |-> cand, outcome |-> outcome, after |-> after]

InRules == status = "running" /\ cur # 0 /\ ridx \in 1..Len(callbacks)

\* Step 3, the rule's pattern does not match the candidate.
RuleNoMatch ==
  /\ InRules
  /\ ~Match(PatternOf(callbacks[ridx]), cand).ok
  /\ ridx' = ridx + 1
  /\ tries' = Append(tries, Attempt(callbacks[ridx], "nomatch", cand))
  /\ UNCHANGED << sugar, arena, root, memo, cur, cand, status, result, pass, input, prev,
                  post_of, visits, last >>

\* Steps 3 and 4, the pattern matches and the callback runs.
CallbackResult ==
  LET m == Match(PatternOf(callbacks[ridx]), cand)
  IN  Callback(callbacks[ridx], arena, cur, cand, m.b)

Invocation(out) ==
  [rule |-> callbacks[ridx], pre |-> cur, post |-> cand,
   map |-> Match(PatternOf(callbacks[ridx]), cand).b,
   outcome |-> out.outcome, expr |-> out.expr]

RuleDeclines ==
  /\ InRules
  /\ Match(PatternOf(callbacks[ridx]), cand).ok
  /\ CallbackResult.outcome = "unchanged"
  /\ ridx' = ridx + 1
  /\ tries' = Append(tries, Attempt(callbacks[ridx], "unchanged", cand))
  /\ last' = Invocation(CallbackResult)
  /\ UNCHANGED << sugar, arena, root, memo, cur, cand, status, result, pass, input, prev,
                  post_of, visits >>

RuleFires ==
  /\ InRules
  /\ Match(PatternOf(callbacks[ridx]), cand).ok
  /\ CallbackResult.outcome = "replace"
  /\ arena' = arena \o CallbackResult.new
  /\ cand' = CallbackResult.expr
  /\ ridx' = ridx + 1
  /\ tries' = Append(tries, Attempt(callbacks[ridx], "replace", CallbackResult.expr))
  /\ last' = Invocation(CallbackResult)
  /\ UNCHANGED << sugar, root, memo, cur, status, result, pass, input, prev, post_of, visits >>

\* A failed ICHECK in the callback throws: the pass ends without a result.
RuleAborts ==
  /\ InRules
  /\ Match(PatternOf(callbacks[ridx]), cand).ok
  /\ CallbackResult.outcome = "abort"
  /\ status' = "error"
  /\ tries' = Append(tries, Attempt(callbacks[ridx], "abort", cand))
  /\ last' = Invocation(CallbackResult)
  /\ UNCHANGED << sugar, arena, root, memo, cur, cand, ridx, result, pass, input, prev,
                  post_of, visits >>

\* Step 5: every rule tried, the candidate is the node's replacement.
Commit ==
  /\ status = "running"
  /\ cur # 0
  /\ ridx = Len(callbacks) + 1
  /\ memo' = [x \in DOMAIN memo \cup {cur} |-> IF x = cur THEN cand ELSE memo[x]]
  /\ cur' = 0
  /\ cand' = 0
  /\ ridx' = 0
  /\ UNCHANGED << sugar, arena, root, status, result, pass, input, prev, post_of, visits,
                  tries, last >>

\* Simplify returns the root's replacement.
Finish ==
  /\ status = "running"
  /\ cur = 0
  /\ Pending = << >>
  /\ result' = memo[root]
  /\ status' = "done"
  /\ UNCHANGED << sugar, arena, root, memo, cur, cand, ridx, pass, input, prev, post_of,
                  visits, tries, last >>

\* The caller runs Simplify again, on what it returned.
SimplifyAgain ==
  /\ status = "done"
  /\ pass < MaxPasses
  /\ root' = result
  /\ prev' = result
  /\ result' = 0
  /\ memo' = << >>
  /\ post_of' = << >>
  /\ visits' = << >>
  /\ tries' = << >>
  /\ last' = NoCall
  /\ pass' = pass + 1
  /\ status' = "running"
  /\ UNCHANGED << sugar, arena, cur, cand, ridx, input >>

Next ==
  \/ Visit
  \/ RuleNoMatch
  \/ RuleDeclines
  \/ RuleFires
  \/ RuleAborts
  \/ Commit
  \/ Finish
  \/ SimplifyAgain

Spec == Init /\ [][Next]_vars

(***************************************************************************)
(* Pattern construction with the binary operators: a + b, a - b, a * b and *)
(* a / b.  Each allocates an ExprPattern of the operator and a CallPattern *)
(* over it.                                                                *)
(***************************************************************************)
BinaryPattern(name, a, b) ==
  CallPattern("binary", IsOp("binary.op", name), << a, b >>)

PatternAdd(a, b) == BinaryPattern("add", a, b)

\* As PatternSub, with the operands exchanged.
PatternSub_swapped(a, b) == BinaryPattern("subtract", b, a)

PatternSub(a, b) == BinaryPattern("subtract", a, b)

PatternMul(a, b) == BinaryPattern("multiply", a, b)

PatternDiv(a, b) == BinaryPattern("divide", a, b)

\* The patterns the operators are applied to.
PatternPool ==
  << IsWildcard("p1"), IsWildcard("p2"), IsConstant("p3"), IsOp("p4", "add"),
     CallPattern("p5", IsOp("p5.op", "exp"), << IsWildcard("p5.x") >>),
     AltPattern("p6", IsWildcard("p6.l"), IsConstant("p6.r")),
     CallPattern("p7", IsOp("p7.op", "subtract"), << IsWildcard("p7.x"), IsWildcard("p7.y") >>) >>

InitPattern ==
  /\ arena = << >>
  /\ root = 0
  /\ input = 0
  /\ memo = << >>
  /\ cur = 0
  /\ cand = 0
  /\ ridx = 0
  /\ status = "patterns"
  /\ result = 0
  /\ pass = 0
  /\ prev = 0
  /\ post_of = << >>
  /\ visits = << >>
  /\ tries = << >>
  /\ last = NoCall
  /\ \E i, j \in 1..Len(PatternPool) :
        sugar = [a |-> PatternPool[i], b |-> PatternPool[j], by |-> "",
                 built |-> IsWildcard("")]

DriverVars == << arena, root, memo, cur, cand, ridx, status, result, pass, input, prev,
                 post_of, visits, tries, last >>

Build(by, pattern) ==
  /\ status = "patterns"
  /\ sugar.by = ""
  /\ sugar' = [sugar EXCEPT !.by = by, !.built = pattern]
  /\ UNCHANGED DriverVars

BuildAdd == Build("+", PatternAdd(sugar.a, sugar.b))

BuildSub == Build("-", PatternSub(sugar.a, sugar.b))

BuildMul == Build("*", PatternMul(sugar.a, sugar.b))

BuildDiv == Build("/", PatternDiv(sugar.a, sugar.b))

NextPattern ==
  \/ BuildAdd
  \/ BuildSub
  \/ BuildMul
  \/ BuildDiv

SpecPattern == InitPattern /\ [][NextPattern]_vars

(***************************************************************************)
(* Properties of the pad-into-convolution rule.                            *)
(***************************************************************************)
ConvPadCalled == last.rule = "SimplifyConvPad"

ConvPadPost == Expr(last.post)

ConvPadPad == Expr(ConvPadPost.args[1])

ConvPadNew == Expr(last.expr)

\* The pad pads no axis but the spatial ones of the convolution's layout.
OnlySpatialPadded ==
  \A i \in 1..Len(ConvPadPad.attrs.pad_width) :
     ConvPadPad.attrs.pad_width[i] # << 0, 0 >>
       => ConvPadPost.attrs.data_layout[i] \in {"H", "W", "D"}

ZeroConstantPad ==
  ConvPadPad.attrs.pad_mode = "constant" /\ ConvPadPad.attrs.pad_value = 0

\* The pad's amounts on the spatial axes: all the befores, then all the afters.
SpatialAmounts ==
  LET pw == ConvPadPad.attrs.pad_width
      sp == SelectSeq([i \in 1..Len(pw) |-> i],
                      LAMBDA i : ConvPadPost.attrs.data_layout[i] \in {"H", "W", "D"})
  IN  [k \in 1..Len(sp) |-> pw[sp[k]][1]] \o [k \in 1..Len(sp) |-> pw[sp[k]][2]]

\* C2: whenever a convolution's data input is a constant-mode, zero-value pad
\* that pads only spatial axes, the callback replaces the convolution by the
\* same convolution over the pad's input, with the pad's spatial amounts added
\* to its padding and no pad left, for every accepted form of the padding; in
\* particular NCHW conv2d with padding [1,1] and pad_width
\* [[0,0],[0,0],[2,2],[2,2]] gives padding [3,3].
C2_PadConvFusion ==
  (ConvPadCalled /\ ZeroConstantPad /\ OnlySpatialPadded) =>
     /\ last.outcome = "replace"
     /\ ConvPadNew.op = ConvPadPost.op
     /\ ConvPadNew.args = << ConvPadPad.args[1], ConvPadPost.args[2] >>
     /\ Len(ConvPadPost.attrs.padding) = Len(SpatialAmounts) =>
          ConvPadNew.attrs.padding =
            [k \in 1..Len(SpatialAmounts) |->
               ConvPadPost.attrs.padding[k] + SpatialAmounts[k]]
     /\ ( /\ ConvPadPost.attrs.padding = << 1, 1 >>
          /\ ConvPadPost.attrs.data_layout = << "N", "C", "H", "W" >>
          /\ ConvPadPad.attrs.pad_width = << << 0, 0 >>, << 0, 0 >>, << 2, 2 >>, << 2, 2 >> >> )
          => ConvPadNew.attrs.padding = << 3, 3 >>

\* C5: whenever the pad feeding a convolution pads a non-spatial axis, or is
\* not constant-mode, or has a non-zero pad value, the callback returns the
\* node unchanged and raises no error.
C5_PadConvBoundary ==
  (ConvPadCalled /\ (~OnlySpatialPadded \/ ~ZeroConstantPad)) =>
     last.outcome = "unchanged" /\ last.expr = last.post

\* C10: whenever the rule fires, the fused convolution differs from the matched
\* one only in its data argument, the pad's input, and its padding: operator,
\* weight, type arguments and every other attribute are the original's, and
\* the padding has as many entries as before.
C10_FusionFrame ==
  (ConvPadCalled /\ last.outcome = "replace") =>
     /\ ConvPadNew.kind = "call"
     /\ ConvPadNew.op = ConvPadPost.op
     /\ ConvPadNew.args = << ConvPadPad.args[1], ConvPadPost.args[2] >>
     /\ ConvPadNew.type_args = ConvPadPost.type_args
     /\ [ConvPadNew.attrs EXCEPT !.padding = << >>]
          = [ConvPadPost.attrs EXCEPT !.padding = << >>]
     /\ Len(ConvPadNew.attrs.padding) = Len(ConvPadPost.attrs.padding)

\* The rule has fired on a 2-D convolution in NHWC whose pad pads both spatial
\* axes.
C10_Witness ==
  /\ ConvPadCalled
  /\ last.outcome = "replace"
  /\ ConvPadPost.attrs.data_layout = << "N", "H", "W", "C" >>
  /\ ConvPadPad.attrs.pad_width[2] # << 0, 0 >>
  /\ ConvPadPad.attrs.pad_width[3] # << 0, 0 >>
  /\ ConvPadNew.attrs.groups = 2

(***************************************************************************)
(* Properties of the broadcast-identity rule.                              *)
(***************************************************************************)
FullCalled == last.rule = "FullElementwise"

FullPre == Expr(last.pre)

FullPost == Expr(last.post)

FullNew == Expr(last.expr)

IsFullLike(e) == Match(F_anyfull, e).ok

\* The position of the full-like operand F the rule is about: the first
\* operand when it is full-like, else the second.
FPos == IF IsFullLike(FullPost.args[1]) THEN 1 ELSE 2

YPos == 3 - FPos

FOperand == Expr(FullPost.args[FPos])

TypeGuard == Expr(FullPre.args[YPos]).ty = FullPre.ty

FKind ==
  CASE FOperand.op \in {OpId("zeros"), OpId("zeros_like")} -> "zeros"
    [] FOperand.op \in {OpId("ones"), OpId("ones_like")} -> "ones"
    [] OTHER -> "full"

FillValue == FOperand.args[Len(FOperand.args)]

C8_DeclinedRewrite ==
  (FullCalled /\ FKind = "full" /\ Expr(FillValue).ty.shape # << >>) =>
     last.outcome = "unchanged" /\ last.expr = last.post /\ status # "error"

(***************************************************************************)
(* Alternation.                                                            *)
(***************************************************************************)
AltPatterns ==
  << R_reshape1, R_reshape2, SimplifyConvPad_pattern.op, SimplifyConvPad_pattern.op.left,
     F_full, F_ones, F_zeros, F_anyfull.left, F_anyfull, FullElementwise_pattern >>

\* Matching Alt(A, B) gives what matching the selected branch alone gives, and
\* the map's entry for the alternation itself: A when A matches, else B.
AltAsSelected(p, e) ==
  LET l == Match(p.left, e)
      r == Match(p.right, e)
      a == Match(p, e)
  IN  /\ a.ok = (l.ok \/ r.ok)
      /\ l.ok => a.b = Bind(l.b, p, e)
      /\ (~l.ok /\ r.ok) => a.b = Bind(r.b, p, e)
      /\ ~a.ok => a.b = EmptyMap

ExactlyOne(keys) == Cardinality({k \in keys : last.map[k] # << >>}) = 1

\* C7: for every alternation Alt(A, B) and node both A and B match, the result
\* and the binding map are those of matching A alone, and no binding of a
\* branch that was not selected reaches the callback; so the callbacks' tests
\* by key see exactly one of full_/ones_/zeros_ and of conv1d_/conv2d_/conv3d_,
\* and a broadcasting call over two full-like operands takes op(full, x).
C7_AltPrecedence ==
  /\ cur # 0 =>
       \A k \in 1..Len(AltPatterns) :
          \A e \in ({cand} \cup Range(Expr(cand).args) \cup {Expr(cand).op}) \ {0} :
             AltAsSelected(AltPatterns[k], e)
  /\ FullCalled =>
       /\ ExactlyOne({F_full.pid, F_ones.pid, F_zeros.pid})
       /\ ExactlyOne({F_left.pid, F_right.pid})
       /\ last.map = Bind(Match(IF IsFullLike(FullPost.args[1]) THEN F_left ELSE F_right,
                                 last.post).b,
                           FullElementwise_pattern, last.post)
       /\ (IsFullLike(FullPost.args[1]) /\ IsFullLike(FullPost.args[2])) =>
            /\ last.map[F_left.pid] = << last.post >>
            /\ last.map[F_x.pid] = << FullPost.args[2] >>
            /\ last.outcome = "replace" => FullNew.args[2] = FullPost.args[2]
  /\ ConvPadCalled => ExactlyOne({C_conv1d.pid, C_conv2d.pid, C_conv3d.pid})

\* The rule has fired on a call whose two operands are both full-like, and
\* distinct nodes.
C7_Witness ==
  /\ FullCalled
  /\ IsFullLike(FullPost.args[1])
  /\ IsFullLike(FullPost.args[2])
  /\ FullPost.args[1] # FullPost.args[2]
  /\ last.outcome = "replace"

(***************************************************************************)
(* Properties of the driver.                                               *)
(***************************************************************************)
\* The visited parents of node n, with the argument position n has in each.
ParentsOf(n) ==
  {<< q, i >> \in (DOMAIN post_of) \X (1..3) :
      i <= Len(Expr(q).args) /\ Expr(q).args[i] = n}

C6_RuleOrder ==
  /\ Len(tries) <= 3
  /\ \A k \in 1..Len(tries) :
        /\ tries[k].rule = << "SimplifyReshape", "FullElementwise", "SimplifyConvPad" >>[k]
        /\ tries[k].node = tries[1].node
        /\ tries[k].before = IF k = 1 THEN post_of[tries[k].node] ELSE tries[k - 1].after
        /\ tries[k].outcome # "replace" => tries[k].after = tries[k].before
  /\ cur # 0 =>
        /\ cand = IF tries = << >> THEN post_of[cur] ELSE tries[Len(tries)].after
        /\ \A k \in 1..Len(tries) : tries[k].node = cur
        /\ ridx = Len(tries) + 1 \/ status = "error"
  /\ (cur = 0 /\ tries # << >>) =>
        /\ Len(tries) = 3
        /\ memo[tries[1].node] = tries[3].after
  /\ \A n \in DOMAIN visits : visits[n] <= 1

\* SimplifyReshape fired at a node and both later rules were then tried on
\* its replacement.
C6_Witness ==
  /\ Len(tries) = 3
  /\ tries[1].outcome = "replace"
  /\ tries[2].before = tries[1].after
  /\ tries[3].before = tries[1].after
  /\ tries[1].after # tries[1].before

(***************************************************************************)
(* Properties of reshape fusion.                                           *)
(***************************************************************************)
IsReshape(e) ==
  Expr(e).kind = "call" /\ Expr(e).op \in {OpId("reshape"), OpId("contrib_reverse_reshape")}

StaticShape(e) == \A i \in 1..Len(Expr(e).ty.shape) : Expr(e).ty.shape[i] # AnyDim

RECURSIVE ChainDepth(_)
ChainDepth(e) == IF IsReshape(e) THEN 1 + ChainDepth(Expr(e).args[1]) ELSE 0

RECURSIVE ChainStatic(_)
ChainStatic(e) == IF IsReshape(e) THEN StaticShape(e) /\ ChainStatic(Expr(e).args[1]) ELSE TRUE

RECURSIVE Innermost(_)
Innermost(e) == IF IsReshape(e) THEN Innermost(Expr(e).args[1]) ELSE e

\* Every reshape under e has a static shape.
AllReshapesStatic(e) ==
  \A n \in Range(PostOrder(arena, e)) : IsReshape(n) => StaticShape(n)

\* C4: a chain of two or more nested reshape / contrib_reverse_reshape calls
\* with static output shapes becomes, in one pass, a single reshape of the
\* innermost operand to the outermost call's shape, and a second run of
\* Simplify returns its argument unchanged.
C4_ReshapeIdempotent ==
  /\ \A n \in DOMAIN memo :
        (ChainDepth(n) >= 2 /\ ChainStatic(n)) =>
           LET r == Expr(memo[n]) IN
           /\ r.kind = "call"
           /\ r.op = OpId("reshape")
           /\ r.args = << memo[Innermost(n)] >>
           /\ ~IsReshape(r.args[1])
           /\ r.attrs.newshape = Expr(n).ty.shape
           /\ r.ty.shape = Expr(n).ty.shape
  /\ (status = "done" /\ pass >= 2 /\ AllReshapesStatic(input)
        /\ \E n \in Range(PostOrder(arena, input)) : ChainDepth(n) >= 2)
       => result = prev

\* A static chain of three reshapes was fused in the first pass and the second
\* pass returned the fused reshape.
C4_Witness ==
  /\ status = "done"
  /\ pass = 2
  /\ ChainDepth(input) = 3
  /\ ChainStatic(input)
  /\ result = prev
  /\ result # input
  /\ Expr(result).args = << Innermost(input) >>

(***************************************************************************)
(* Properties of pattern construction.                                     *)
(***************************************************************************)
OpOfSugar(by) ==
  CASE by = "+" -> "add" [] by = "-" -> "subtract" [] by = "*" -> "multiply"
    [] by = "/" -> "divide"

\* C9: a + b, a - b, a * b and a / b each build a Call pattern whose operator
\* is the ExprRef pattern of add, subtract, multiply and divide and whose
\* arguments are exactly a and b, the same objects in the same order.
C9_BinarySugar ==
  sugar.by # "" =>
     /\ sugar.built.kind = "call"
     /\ sugar.built.op.kind = "expr"
     /\ sugar.built.op.expr = OpId(OpOfSugar(sugar.by))
     /\ Len(sugar.built.args) = 2
     /\ sugar.built.args[1].pid = sugar.a.pid
     /\ sugar.built.args[2].pid = sugar.b.pid
     /\ PatternIds(sugar.built.args[1]) = PatternIds(sugar.a)
     /\ PatternIds(sugar.built.args[2]) = PatternIds(sugar.b)

\* a / b was built of two different patterns.
C9_Witness ==
  /\ sugar.by = "/"
  /\ sugar.a.pid = "p5"
  /\ sugar.b.pid = "p3"
  /\ sugar.built.args[1].kind = "call"

====
